---- MODULE Spec2Model ----
(***************************************************************************)
(* Model of lajittelia (src/main.rs): a file sorter that derives aliases   *)
(* from the sub-directories of a target directory, matches the files of    *)
(* the source directories against them and moves every file that matches   *)
(* exactly one alias, renaming with a " (N)" suffix on collision.          *)
(*                                                                         *)
(* Strings are sequences of one-character strings, so that slicing,        *)
(* trimming, case folding and regular-expression matching are computed     *)
(* character by character as the code does.  Only ASCII text is modelled.  *)
(***************************************************************************)
EXTENDS Integers, Sequences, FiniteSets, TLC

VARIABLES
    \* rename_destination (one call)
    source_name,     \* source_path.file_name()
    target_is_dir,   \* target_dir.is_dir()
    existing,        \* the file names that exist in target_dir
    new_path,        \* the local new_path, as a file name inside target_dir
    extension,       \* the local extension
    probed,          \* the values new_path.exists() was asked about, in order
    overflow_checks, \* the build panics on integer overflow instead of wrapping
    rd_pc,           \* "entry", "loop", "returned" or "panicked"
    \* generate_aliases (one call)
    ga_is_dir,       \* target_dirs.is_dir()
    ga_children,     \* the children of target_dirs: [name, is_dir]
    ga_unread,       \* the children fs::read_dir has not yielded yet
    entries,         \* the local entries: alias -> sub-directory name
    ga_pc,           \* "entry", "reading", "returned" or "err"
    \* search_candidates (one call)
    sc_keys,         \* the keys of the argument entries
    sc_sources,      \* the argument sources: a sequence of directory paths
    sc_dirs,         \* the filesystem: path -> [is_dir, children]
    aliases,         \* the local aliases: the keys sorted by length
    sc_idx,          \* how many elements of sources the outer loop has taken
    sc_unread,       \* the entries read_dir of the current directory has not yielded
    sc_file,         \* the path of the entry being matched: <<directory, name>>
    modified,        \* the local modified: its normalized name
    pending,         \* the indices of aliases no worker has taken yet
    workers,         \* thread -> [pc, alias, snapshot]
    mutex,           \* the threads that hold the guard of alias_matches_lock
    alias_matches,   \* the Vec inside alias_matches_lock
    candidates,      \* the local candidates: path -> alias
    multiple_matches, \* the local multiple_matches
    sc_pc,           \* "entry", "dirs", "files", "par" or "returned"
    \* main (one run of the program)
    move_files,      \* args.move_files
    target_ok,       \* args.target.is_dir()
    paths,           \* args.paths
    subdirs,         \* the sub-directories of args.target, by name
    fs,              \* the files: path <<directory, name>> -> the file there
    fs0,             \* fs when the run started
    m_aliases,       \* the local aliases of main: alias -> sub-directory
    m_candidates,    \* the local candidates: path -> alias
    m_multiple,      \* the local multiple_matches
    remaining,       \* the candidates the for loop has not reached yet
    moves,           \* the fs::rename calls that succeeded: [src, dst, dst_free]
    out,             \* what was printed: [kind, path, dst]
    pc               \* "start", "aliases", "search", "apply", "done", "exit1",
                     \* "exit2" or "panicked"

namerVars == <<source_name, target_is_dir, existing, new_path, extension, probed,
               overflow_checks, rd_pc>>

aliasVars == <<ga_is_dir, ga_children, ga_unread, entries, ga_pc>>

matchVars == <<sc_keys, sc_sources, sc_dirs, aliases, sc_idx, sc_unread, sc_file, modified,
               pending, workers, mutex, alias_matches, candidates, multiple_matches, sc_pc>>

mainVars == <<move_files, target_ok, paths, subdirs, fs, fs0, m_aliases, m_candidates,
              m_multiple, remaining, moves, out, pc>>

vars == <<namerVars, aliasVars, matchVars, mainVars>>

\* what each component leaves alone
notNamer == <<aliasVars, matchVars, mainVars>>

notAlias == <<namerVars, matchVars, mainVars>>

notMatch == <<namerVars, aliasVars, mainVars>>

notMain == <<namerVars, aliasVars, matchVars>>

----------------------------------------------------------------------------
(* Bounds of the model *)

\* largest " (N)" suffix among the files that pre-exist in the target directory
MaxSuffix == 3

\* threads of the rayon pool that run the par_iter of search_candidates
NumWorkers == 2

\* entries of the first source directory of a search_candidates run
MaxDirEntries == 2

----------------------------------------------------------------------------
(* Characters *)

Digits == <<"0", "1", "2", "3", "4", "5", "6", "7", "8", "9">>

LowerLetters == <<"a", "b", "c", "d", "e", "f", "g", "h", "i", "j", "k", "l", "m",
                  "n", "o", "p", "q", "r", "s", "t", "u", "v", "w", "x", "y", "z">>

UpperLetters == <<"A", "B", "C", "D", "E", "F", "G", "H", "I", "J", "K", "L", "M",
                  "N", "O", "P", "Q", "R", "S", "T", "U", "V", "W", "X", "Y", "Z">>

Range(f) == {f[i] : i \in DOMAIN f}

DigitSet == Range(Digits)

LowerSet == Range(LowerLetters)

UpperSet == Range(UpperLetters)

\* an ASCII digit: what str::parse::<u64> accepts
IsDigit(c) == c \in DigitSet

\* U+0661, ARABIC-INDIC DIGIT ONE, written by its code point because a string
\* holds ASCII characters only: a decimal digit that is no ASCII digit
ArabicIndicOne == "U+0661"

\* the decimal digits (general category Nd) outside ASCII that occur in the
\* names of the model
UnicodeDigits == {ArabicIndicOne}

\* the \d of a regex, which is Unicode-aware: every decimal digit
IsRegexDigit(c) == IsDigit(c) \/ c \in UnicodeDigits

IsLower(c) == c \in LowerSet

IsUpper(c) == c \in UpperSet

\* Option::None of the code
None == "None"

----------------------------------------------------------------------------
(* std::path::Path: file_stem and extension of a file name *)

\* position of the last "." of name, 0 when there is none
LastDot(name) ==
    IF \E i \in 1..Len(name) : name[i] = "."
    THEN CHOOSE i \in 1..Len(name) :
            /\ name[i] = "."
            /\ \A j \in (i + 1)..Len(name) : name[j] # "."
    ELSE 0

\* Path::extension: None when the name is "..", has no dot, or only a leading dot
Extension(name) ==
    IF name = <<".", ".">> \/ LastDot(name) <= 1
    THEN None
    ELSE SubSeq(name, LastDot(name) + 1, Len(name))

\* Path::file_stem: the whole name when there is no extension
FileStem(name) ==
    IF name = <<".", ".">> \/ LastDot(name) <= 1
    THEN name
    ELSE SubSeq(name, 1, LastDot(name) - 1)

----------------------------------------------------------------------------
(* Decimal numbers: str::parse::<u64> and the {} of format! *)

DigitVal(c) == (CHOOSE i \in 1..10 : Digits[i] = c) - 1

RECURSIVE FormatNum(_)
FormatNum(n) ==
    IF n < 10 THEN <<Digits[n + 1]>>
    ELSE FormatNum(n \div 10) \o <<Digits[(n % 10) + 1]>>

\* u64::MAX = 2^64 - 1 in decimal
U64Max == <<"1", "8", "4", "4", "6", "7", "4", "4", "0", "7", "3", "7", "0", "9", "5", "5",
            "1", "6", "1", "5">>

\* the digits without their leading zeros (the last digit is kept)
RECURSIVE StripZeros(_)
StripZeros(ds) ==
    IF Len(ds) > 1 /\ Head(ds) = "0" THEN StripZeros(Tail(ds)) ELSE ds

\* a > b for two numbers of as many digits
DigitsGreater(a, b) ==
    \E i \in 1..Len(a) :
        /\ DigitVal(a[i]) > DigitVal(b[i])
        /\ \A j \in 1..(i - 1) : a[j] = b[j]

\* str::parse::<u64> returns Err: a character is no ASCII digit, or the
\* number is above u64::MAX
ParseFails(ds) ==
    IF \E i \in DOMAIN ds : ~IsDigit(ds[i]) THEN TRUE
    ELSE \/ Len(StripZeros(ds)) > Len(U64Max)
         \/ Len(StripZeros(ds)) = Len(U64Max) /\ DigitsGreater(StripZeros(ds), U64Max)

\* the number parsed is u64::MAX, so that num + 1 overflows
IsU64Max(ds) == StripZeros(ds) = U64Max

\* num + 1 for a num below u64::MAX, on the decimal digits of num without
\* leading zeros (a u64 is wider than the integers of the model checker):
\* the digits the {} of format! prints for it
RECURSIVE AddOne(_)
AddOne(ds) ==
    IF ds = <<>> THEN <<"1">>
    ELSE IF ds[Len(ds)] = "9" THEN AddOne(SubSeq(ds, 1, Len(ds) - 1)) \o <<"0">>
    ELSE SubSeq(ds, 1, Len(ds) - 1) \o <<Digits[DigitVal(ds[Len(ds)]) + 2]>>

----------------------------------------------------------------------------
(* rename_destination: the suffix regex  " \((\d+)\)$"  *)

\* length of the run of digits of s that ends at position i
RECURSIVE DigitRun(_, _)
DigitRun(s, i) ==
    IF i >= 1 /\ IsRegexDigit(s[i]) THEN 1 + DigitRun(s, i - 1) ELSE 0

\* re_suffix.is_match(stem)
SuffixIsMatch(stem) ==
    LET n == Len(stem)
        k == IF n >= 1 THEN DigitRun(stem, n - 1) ELSE 0
    IN  /\ n >= 4
        /\ stem[n] = ")"
        /\ k >= 1
        /\ n - k - 2 >= 1
        /\ stem[n - k - 1] = "("
        /\ stem[n - k - 2] = " "

\* m.get(1).unwrap().start(): the 0-based offset at which the digits begin
SuffixStart(stem) == Len(stem) - DigitRun(stem, Len(stem) - 1) - 1

\* m.get(1): the digits captured
SuffixDigits(stem) == SubSeq(stem, SuffixStart(stem) + 1, Len(stem) - 1)

\* &stem[0..start - 2]
RemoveOldSuffix(stem) == SubSeq(stem, 1, SuffixStart(stem) - 2)

\* format!("{} ({}).{}", stem, n, extension) for the digits of n
SuffixedDigits(stem, ds, ext) ==
    stem \o <<" ", "(">> \o ds \o <<")", ".">> \o ext

\* format!("{} ({}).{}", stem, n, extension)
SuffixedName(stem, n, ext) == SuffixedDigits(stem, FormatNum(n), ext)

\* the branch "Add (1) suffix" of the loop body
AddSuffix(path, ext) == SuffixedName(FileStem(path), 1, ext)

\* an increment that steps over the next number
IncreaseSuffixByTwo(path, ext) ==
    IF ParseFails(SuffixDigits(FileStem(path))) THEN None
    ELSE IF IsU64Max(SuffixDigits(FileStem(path)))
         THEN IF overflow_checks THEN None
              ELSE SuffixedName(RemoveOldSuffix(FileStem(path)), 1, ext)
         ELSE SuffixedDigits(RemoveOldSuffix(FileStem(path)),
                             AddOne(AddOne(StripZeros(SuffixDigits(FileStem(path))))), ext)

\* the branch "Increase (1) suffix to (2)" of the loop body; None stands for
\* a panic: parse().unwrap() of digits that are no u64 (a digit outside
\* ASCII, a number above u64::MAX), or num + 1 for u64::MAX in a build with
\* overflow checks (without them it wraps to 0)
IncreaseSuffix(path, ext) ==
    IF ParseFails(SuffixDigits(FileStem(path))) THEN None
    ELSE IF IsU64Max(SuffixDigits(FileStem(path)))
         THEN IF overflow_checks THEN None
              ELSE SuffixedName(RemoveOldSuffix(FileStem(path)), 0, ext)
         ELSE SuffixedDigits(RemoveOldSuffix(FileStem(path)),
                             AddOne(StripZeros(SuffixDigits(FileStem(path)))), ext)

\* one iteration of the loop for a path that exists: the next path to probe,
\* None when the iteration panics
NextProbe(path, ext) ==
    IF ~SuffixIsMatch(FileStem(path))
    THEN AddSuffix(path, ext)
    ELSE IncreaseSuffix(path, ext)

\* a loop that trusts a freshly suffixed name without asking the filesystem
PathExistsUnsuffixedOnly(path, present) ==
    path \in present /\ ~SuffixIsMatch(FileStem(path))

\* new_path.exists()
PathExists(path, present) == path \in present

\* a loop that does not probe again: on a collision it numbers the name by
\* the count of the names present
ProbeLoopCountsFiles(path, ext, present) ==
    IF ~PathExists(path, present) THEN path
    ELSE SuffixedName(FileStem(path), Cardinality(present), ext)

\* the loop of rename_destination run to its break, or to its panic
RECURSIVE ProbeLoop(_, _, _)
ProbeLoop(path, ext, present) ==
    IF path = None THEN None
    ELSE IF ~PathExists(path, present) THEN path
    ELSE ProbeLoop(NextProbe(path, ext), ext, present)

\* a rename_destination that takes a missing extension for an empty one
RenameDestinationNoUnwrap(name, present) ==
    ProbeLoop(name, IF Extension(name) = None THEN <<>> ELSE Extension(name), present)

\* rename_destination(source, target_dir) as a function of the source's file
\* name and of the names that exist in target_dir; None stands for a panic,
\* of extension().unwrap() or inside the loop
RenameDestination(name, present) ==
    IF Extension(name) = None THEN None
    ELSE ProbeLoop(name, Extension(name), present)

----------------------------------------------------------------------------
(* generate_aliases *)

\* char::to_lowercase on ASCII
LowerChar(c) ==
    IF IsUpper(c) THEN LowerLetters[CHOOSE i \in 1..26 : UpperLetters[i] = c] ELSE c

\* str::to_lowercase
ToLowercase(s) == [i \in 1..Len(s) |-> LowerChar(s[i])]

\* str::contains(c)
Contains(s, c) == \E i \in 1..Len(s) : s[i] = c

\* position of the first c of s (s contains c)
FirstIndex(s, c) ==
    CHOOSE i \in 1..Len(s) : s[i] = c /\ \A j \in 1..(i - 1) : s[j] # c

\* str::split(c): the segments between the occurrences of c, empty ones included
RECURSIVE Split(_, _)
Split(s, c) ==
    IF ~Contains(s, c) THEN <<s>>
    ELSE <<SubSeq(s, 1, FirstIndex(s, c) - 1)>>
         \o Split(SubSeq(s, FirstIndex(s, c) + 1, Len(s)), c)

\* U+000B, the vertical tab, for which a string has no escape
VerticalTab == ""

\* the ASCII characters with the White_Space property, which str::trim removes
Whitespace == {" ", "\t", "\n", VerticalTab, "\f", "\r"}

\* char::is_whitespace
IsWhitespace(c) == c \in Whitespace

\* str::trim_start_matches / trim_end_matches for a set of characters
RECURSIVE TrimStart(_, _)
TrimStart(s, remove) ==
    IF s # <<>> /\ Head(s) \in remove THEN TrimStart(Tail(s), remove) ELSE s

RECURSIVE TrimEnd(_, _)
TrimEnd(s, remove) ==
    IF s # <<>> /\ s[Len(s)] \in remove
    THEN TrimEnd(SubSeq(s, 1, Len(s) - 1), remove) ELSE s

\* str::trim
Trim(s) == TrimEnd(TrimStart(s, Whitespace), Whitespace)

\* HashMap::insert: a key already present is overwritten
MapInsert(map, key, value) ==
    [k \in DOMAIN map \cup {key} |-> IF k = key THEN value ELSE map[k]]

EmptyMap == [k \in {} |-> <<>>]

\* the segments of a name with commas taken as they are, without trim
AliasKeysUntrimmed(dirname) ==
    LET name == ToLowercase(dirname)
    IN  IF Contains(name, ",") THEN Split(name, ",") ELSE <<name>>

\* lines 29-52: the alias keys a sub-directory name yields, in insertion order
AliasKeys(dirname) ==
    LET name == ToLowercase(dirname)
    IN  IF Contains(name, ",")
        THEN [i \in 1..Len(Split(name, ",")) |-> Trim(Split(name, ",")[i])]
        ELSE <<name>>

\* lines 36-44 / 47-51: every key is inserted; the Error::new of a key that is
\* already present is built and dropped, so the insert still happens
RECURSIVE InsertKeys(_, _, _)
InsertKeys(map, keys, dirname) ==
    IF keys = <<>> THEN map
    ELSE InsertKeys(MapInsert(map, Head(keys), dirname), Tail(keys), dirname)

\* lines 23-52: the loop body for one child of the target directory
ReadEntry(map, child) ==
    IF ~child.is_dir THEN map
    ELSE InsertKeys(map, AliasKeys(child.name), child.name)

----------------------------------------------------------------------------
(* sort_keys, trim_str and the matching of search_candidates *)

\* the bytes a character takes in UTF-8: one for ASCII, two for U+0661
CharBytes(c) == IF c \in UnicodeDigits THEN 2 ELSE 1

\* String::len: the length in bytes
RECURSIVE ByteLen(_)
ByteLen(s) == IF s = <<>> THEN 0 ELSE CharBytes(Head(s)) + ByteLen(Tail(s))

\* lines 62-69: the keys sorted by their length in bytes, longest first; keys
\* of one length come in the order the HashMap yields them, which is any
\* order
SortedByLength(keys) ==
    {order \in [1..Cardinality(keys) -> keys] :
        /\ \A i, j \in DOMAIN order : i # j => order[i] # order[j]
        /\ \A i, j \in DOMAIN order : i < j => ByteLen(order[i]) >= ByteLen(order[j])}

\* lines 74-78: trim_matches of '_', '.', '-' and ' ' at both ends
TrimStr(s) == TrimEnd(TrimStart(s, {"_", ".", "-", " "}), {"_", ".", "-", " "})

\* line 126: replace(".", " ")
ReplaceDots(s) == [i \in 1..Len(s) |-> IF s[i] = "." THEN " " ELSE s[i]]

\* convert_case: the characters that separate words and are dropped
IsDelimiter(c) == c \in {"_", "-", " "}

\* convert_case: a word boundary between s[i - 1] and s[i] that drops nothing:
\* lower-upper, letter-digit, digit-letter, and the acronym boundary (two
\* capitals followed by a lower-case letter split before the second capital)
CaseBoundaryBefore(s, i) ==
    /\ i >= 2
    /\ \/ IsLower(s[i - 1]) /\ IsUpper(s[i])
       \/ (IsLower(s[i - 1]) \/ IsUpper(s[i - 1])) /\ IsDigit(s[i])
       \/ IsDigit(s[i - 1]) /\ (IsLower(s[i]) \/ IsUpper(s[i]))
       \/ IsUpper(s[i - 1]) /\ IsUpper(s[i]) /\ i < Len(s) /\ IsLower(s[i + 1])

\* convert_case: the words of s from position i on, cur being the word so far;
\* empty words are dropped
RECURSIVE WordsFrom(_, _, _)
WordsFrom(s, i, cur) ==
    IF i > Len(s) THEN (IF cur = <<>> THEN <<>> ELSE <<cur>>)
    ELSE IF IsDelimiter(s[i])
         THEN (IF cur = <<>> THEN <<>> ELSE <<cur>>) \o WordsFrom(s, i + 1, <<>>)
    ELSE IF CaseBoundaryBefore(s, i) /\ cur # <<>>
         THEN <<cur>> \o WordsFrom(s, i + 1, <<s[i]>>)
    ELSE WordsFrom(s, i + 1, Append(cur, s[i]))

\* the words joined by one space
RECURSIVE JoinWords(_)
JoinWords(words) ==
    IF words = <<>> THEN <<>>
    ELSE IF Len(words) = 1 THEN words[1]
    ELSE words[1] \o <<" ">> \o JoinWords(Tail(words))

\* line 127: to_case(Case::Lower): lower-case words separated by one space
ToCaseLower(s) == ToLowercase(JoinWords(WordsFrom(s, 1, <<>>)))

\* lines 119-127: the normalized file name the patterns are tested against
Normalize(name) == ToCaseLower(ReplaceDots(TrimStr(FileStem(name))))

\* regex \w: the letters of the model, the decimal digits and "_"
IsWordChar(c) == IsLower(c) \/ IsUpper(c) \/ IsRegexDigit(c) \/ c = "_"

\* regex \b at offset p of s (between s[p] and s[p + 1])
WordBoundary(s, p) ==
    (p >= 1 /\ IsWordChar(s[p])) # (p < Len(s) /\ IsWordChar(s[p + 1]))

\* lines 103 and 138: Regex "\b" + escape(alias) + "\b" is_match text
IsMatch(alias, text) ==
    \E i \in 0..(Len(text) - Len(alias)) :
        /\ SubSeq(text, i + 1, i + Len(alias)) = alias
        /\ WordBoundary(text, i)
        /\ WordBoundary(text, i + Len(alias))

\* what a sequential evaluation of lines 135-142 collects
MatchingAliases(keys, text) == {a \in keys : IsMatch(a, text)}

\* a classification that resolves several matches to the longest alias
ClassifyLongestWins(matches) ==
    IF matches = <<>> THEN "none" ELSE "candidate"

\* lines 146-155: what becomes of a file given its alias_matches
Classify(matches) ==
    IF matches = <<>> THEN "none"
    ELSE IF Len(matches) > 1 THEN "multiple"
    ELSE "candidate"

\* a lock that never excludes anybody
MutexFreeAlways(owner) == TRUE

\* line 140: Mutex::lock() returns only while no other thread holds the guard
MutexFree(owner) == owner = {}

----------------------------------------------------------------------------
(* main: the calls it makes, as functions of the filesystem *)

\* the orders in which an iteration may yield the elements of a set
Orders(set) ==
    {order \in [1..Cardinality(set) -> set] :
        \A i, j \in DOMAIN order : i # j => order[i] # order[j]}

\* lines 22-55: generate_aliases for the children read in the given order
RECURSIVE ReadEntries(_, _)
ReadEntries(map, order) ==
    IF order = <<>> THEN map
    ELSE ReadEntries(ReadEntry(map, Head(order)), Tail(order))

\* the files directly inside a directory, as paths
FilesIn(f, dir) == {p \in DOMAIN f : p[1] = dir}

\* the names that exist in a directory, as the run finds them when it asks
NamesIn(f, dir) == {p[2] : p \in FilesIn(f, dir)}

\* lines 135-144 for one file: the Vecs alias_matches may be: the matching
\* aliases in any order, as the order of the sorted keys of one length and
\* the threads decide it
AliasMatches(keys, name) == Orders(MatchingAliases(keys, Normalize(name)))

\* lines 107-156: the files of the sources that get the given classification
FilesClassified(keys, sources, f, class) ==
    {p \in UNION {FilesIn(f, sources[i]) : i \in DOMAIN sources} :
        /\ Normalize(p[2]) # <<>>
        /\ \E matches \in AliasMatches(keys, p[2]) : Classify(matches) = class}

\* line 155: the candidates map of search_candidates: alias_matches[0] of
\* the Vec of a candidate, which has one element and so one order
CandidatesMap(keys, sources, f) ==
    [p \in FilesClassified(keys, sources, f, "candidate") |->
        (CHOOSE matches \in AliasMatches(keys, p[2]) : TRUE)[1]]

\* lines 107-151: the multiple_matches a run may return: the loop takes the
\* sources one after the other, a directory named twice is read twice and
\* its ambiguous files are pushed again, and the files of one directory come
\* in the order read_dir yields them
RECURSIVE MultipleLists(_, _, _)
MultipleLists(keys, sources, f) ==
    IF sources = <<>> THEN {<<>>}
    ELSE {first \o rest :
            first \in Orders(FilesClassified(keys, <<Head(sources)>>, f, "multiple")),
            rest \in MultipleLists(keys, Tail(sources), f)}

\* fs::rename: the file at src is at dst afterwards, replacing what was there
Rename(f, src, dst) ==
    [p \in (DOMAIN f \ {src}) \cup {dst} |-> IF p = dst THEN f[src] ELSE f[p]]

\* a report branch that moves the file all the same
DryRunRenames(f, src, dst) == Rename(f, src, dst)

\* lines 302-304: without --move-files the branch prints and leaves the
\* filesystem alone
DryRun(f, src, dst) == f

\* destinations computed from the directory as it was when the run started
NamesSeenStale(f, dir) == {p[2] : p \in FilesIn(fs0, dir)}

\* lines 186 and 292: the names new_path.exists() finds in target_dir: the
\* calls are made one candidate at a time, after the moves made so far
NamesSeen(f, dir) == NamesIn(f, dir)

\* lines 291-292: the destination of a candidate, None for the panic
Destination(f, table, cands, c) ==
    LET target_dir == table[cands[c]]
        name == RenameDestination(c[2], NamesSeen(f, target_dir))
    IN  IF name = None THEN None ELSE <<target_dir, name>>

Line(kind, path, dst) == [kind |-> kind, path |-> path, dst |-> dst]

----------------------------------------------------------------------------
(* Inputs of the rename_destination runs *)

Stem_r == <<"r">>

Ext_e == <<"e">>

FileName(stem, ext) == stem \o <<".">> \o ext

Numbered(stem, n, ext) == SuffixedName(stem, n, ext)

\* the names that may pre-exist in the target directory
NamerExisting ==
    {FileName(Stem_r, Ext_e)}
    \cup {Numbered(Stem_r, n, Ext_e) : n \in 1..MaxSuffix}
    \cup {Numbered(Stem_r, 9, Ext_e), Numbered(Stem_r, 10, Ext_e)}
    \cup {<<"r", "(", "1", ")", ".", "e">>,
          <<" ", "(", "1", ")", ".", "e">>,
          <<"r", " ", "(", "0", "1", ")", ".", "e">>,
          <<"r", ".">>}

\* the file names of the sources: every name that may exist, a name whose
\* stem carries two suffixes, and names without an extension
NamerSources ==
    NamerExisting
    \cup {<<"r", " ", "(", "1", ")", " ", "(", "1", ")", ".", "e">>}
    \cup {<<"r">>, <<".", "e">>}

\* names whose suffix holds u64::MAX - 1, u64::MAX and u64::MAX + 1, and a
\* name whose suffix is a decimal digit outside ASCII
NamerHuge ==
    {SuffixedDigits(Stem_r, SubSeq(U64Max, 1, Len(U64Max) - 1) \o <<"4">>, Ext_e),
     SuffixedDigits(Stem_r, U64Max, Ext_e),
     SuffixedDigits(Stem_r, SubSeq(U64Max, 1, Len(U64Max) - 1) \o <<"6">>, Ext_e),
     SuffixedDigits(Stem_r, <<ArabicIndicOne>>, Ext_e)}

\* what the target directory holds when it holds such a name: at least one
\* of them, with or without the names a wrapped number continues with
NamerHugeExisting ==
    {huge \cup low : huge \in (SUBSET NamerHuge) \ {{}},
                     low \in SUBSET {Numbered(Stem_r, 0, Ext_e), Numbered(Stem_r, 1, Ext_e)}}

----------------------------------------------------------------------------
(* rename_destination, one loop iteration per step *)

NamerIdle ==
    /\ source_name = <<>>
    /\ target_is_dir = FALSE
    /\ existing = {}
    /\ new_path = <<>>
    /\ extension = None
    /\ probed = <<>>
    /\ overflow_checks = FALSE
    /\ rd_pc = "idle"

NamerInit ==
    /\ source_name \in NamerSources \cup NamerHuge
    /\ target_is_dir \in BOOLEAN
    /\ existing \in (IF target_is_dir
                     THEN (SUBSET NamerExisting) \cup NamerHugeExisting ELSE {{}})
    /\ new_path = <<>>
    /\ extension = None
    /\ probed = <<>>
    /\ overflow_checks \in BOOLEAN
    /\ rd_pc = "entry"

\* lines 170-178: the discarded Error::new, new_path = target_dir.join(file
\* name), extension = new_path.extension().unwrap()
RdEnter ==
    /\ rd_pc = "entry"
    /\ Extension(source_name) # None
    /\ new_path' = source_name
    /\ extension' = Extension(source_name)
    /\ rd_pc' = "loop"
    /\ UNCHANGED <<source_name, target_is_dir, existing, probed, overflow_checks>>
    /\ UNCHANGED notNamer

\* line 178: extension() is None and unwrap() panics
RdPanic ==
    /\ rd_pc = "entry"
    /\ Extension(source_name) = None
    /\ new_path' = source_name
    /\ rd_pc' = "panicked"
    /\ UNCHANGED <<source_name, target_is_dir, existing, extension, probed,
                   overflow_checks>>
    /\ UNCHANGED notNamer

\* lines 186-189 and 232: the path is free, break and return Ok(new_path)
RdBreak ==
    /\ rd_pc = "loop"
    /\ ~PathExists(new_path, existing)
    /\ probed' = Append(probed, new_path)
    /\ rd_pc' = "returned"
    /\ UNCHANGED <<source_name, target_is_dir, existing, new_path, extension,
                   overflow_checks>>
    /\ UNCHANGED notNamer

\* lines 191-201: the path exists and its stem has no suffix
RdAddSuffix ==
    /\ rd_pc = "loop"
    /\ PathExists(new_path, existing)
    /\ ~SuffixIsMatch(FileStem(new_path))
    /\ probed' = Append(probed, new_path)
    /\ new_path' = NextProbe(new_path, extension)
    /\ UNCHANGED <<source_name, target_is_dir, existing, extension, overflow_checks, rd_pc>>
    /\ UNCHANGED notNamer

\* lines 202-229: the path exists and its stem ends in a suffix
RdIncreaseSuffix ==
    /\ rd_pc = "loop"
    /\ PathExists(new_path, existing)
    /\ SuffixIsMatch(FileStem(new_path))
    /\ NextProbe(new_path, extension) # None
    /\ probed' = Append(probed, new_path)
    /\ new_path' = NextProbe(new_path, extension)
    /\ UNCHANGED <<source_name, target_is_dir, existing, extension, overflow_checks, rd_pc>>
    /\ UNCHANGED notNamer

\* lines 208-210 and 222: the path exists and the number of its suffix is
\* above u64::MAX, so that parse().unwrap() panics, or is u64::MAX in a build
\* with overflow checks, so that num + 1 panics
RdSuffixPanic ==
    /\ rd_pc = "loop"
    /\ PathExists(new_path, existing)
    /\ SuffixIsMatch(FileStem(new_path))
    /\ NextProbe(new_path, extension) = None
    /\ probed' = Append(probed, new_path)
    /\ rd_pc' = "panicked"
    /\ UNCHANGED <<source_name, target_is_dir, existing, new_path, extension,
                   overflow_checks>>
    /\ UNCHANGED notNamer

NamerNext ==
    \/ RdEnter \/ RdPanic \/ RdBreak \/ RdAddSuffix \/ RdIncreaseSuffix
    \/ RdSuffixPanic

----------------------------------------------------------------------------
(* Inputs of the generate_aliases runs *)

Dir_Movies == <<"M", "o", "v", "i", "e", "s">>

Dir_movies_TV == <<"m", "o", "v", "i", "e", "s", ",", " ", "T", "V">>

Dir_Movies_Films == <<"M", "o", "v", "i", "e", "s", ",", " ", "F", "i", "l", "m", "s">>

Dir_tv == <<"t", "v">>

Dir_docs == <<" ", "D", "o", "c", "s">>

\* a name with a form feed and a vertical tab around its second segment
Dir_x_a == <<"x", ",", "\f", "a", VerticalTab>>

File_films == <<"f", "i", "l", "m", "s">>

Child(name, isdir) == [name |-> name, is_dir |-> isdir]

\* what the target directory may contain: sub-directories and one regular file
AliasChildren ==
    {Child(Dir_Movies, TRUE), Child(Dir_movies_TV, TRUE), Child(Dir_Movies_Films, TRUE),
     Child(Dir_tv, TRUE), Child(Dir_docs, TRUE), Child(Dir_x_a, TRUE),
     Child(File_films, FALSE)}

----------------------------------------------------------------------------
(* generate_aliases, one directory entry per step *)

AliasIdle ==
    /\ ga_is_dir = FALSE
    /\ ga_children = {}
    /\ ga_unread = {}
    /\ entries = EmptyMap
    /\ ga_pc = "idle"

AliasInit ==
    /\ ga_is_dir \in BOOLEAN
    /\ ga_children \in (IF ga_is_dir THEN SUBSET AliasChildren ELSE {{}})
    /\ ga_unread = ga_children
    /\ entries = EmptyMap
    /\ ga_pc = "entry"

\* lines 16-22: the Error::new of line 17 is dropped; fs::read_dir succeeds
GaReadDir ==
    /\ ga_pc = "entry"
    /\ ga_is_dir
    /\ ga_pc' = "reading"
    /\ UNCHANGED <<ga_is_dir, ga_children, ga_unread, entries>>
    /\ UNCHANGED notAlias

\* a read_dir whose error is dropped like the Error::new of line 17, the
\* loop running over nothing
GaReadDirErrDropped ==
    /\ ga_pc = "entry"
    /\ ~ga_is_dir
    /\ ga_pc' = "reading"
    /\ UNCHANGED <<ga_is_dir, ga_children, ga_unread, entries>>
    /\ UNCHANGED notAlias

\* line 22: fs::read_dir of a path that is no directory fails, and ? returns it
GaReadDirErr ==
    /\ ga_pc = "entry"
    /\ ~ga_is_dir
    /\ ga_pc' = "err"
    /\ UNCHANGED <<ga_is_dir, ga_children, ga_unread, entries>>
    /\ UNCHANGED notAlias

\* lines 22-53: one iteration, read_dir yielding the children in any order
GaEntry ==
    /\ ga_pc = "reading"
    /\ \E child \in ga_unread :
          /\ entries' = ReadEntry(entries, child)
          /\ ga_unread' = ga_unread \ {child}
    /\ UNCHANGED <<ga_is_dir, ga_children, ga_pc>>
    /\ UNCHANGED notAlias

\* line 55: Ok(entries)
GaReturn ==
    /\ ga_pc = "reading"
    /\ ga_unread = {}
    /\ ga_pc' = "returned"
    /\ UNCHANGED <<ga_is_dir, ga_children, ga_unread, entries>>
    /\ UNCHANGED notAlias

AliasNext == GaReadDir \/ GaReadDirErr \/ GaEntry \/ GaReturn

----------------------------------------------------------------------------
(* Inputs of the search_candidates runs *)

Alias_tv == <<"t", "v">>

Alias_hd == <<"h", "d">>

Alias_tv_hd == <<"t", "v", " ", "h", "d">>

MatchAliases == {Alias_tv, Alias_hd, Alias_tv_hd}

\* a key of one character and two bytes
Alias_arabic_one == <<ArabicIndicOne>>

\* the alias tables of the runs: every table of the three aliases, and a
\* table whose two keys have the same length in bytes and not in characters
MatchKeySets == (SUBSET MatchAliases) \cup {{Alias_tv, Alias_arabic_one}}

\* file names: one alias as a whole word, two aliases, all three, aliases that
\* are no whole words, words that only the case conversion separates, a name
\* that normalizes to nothing, a name without alias, and a sub-directory
MatchEntries ==
    {Child(<<"t", "v", ".", "e">>, FALSE),
     Child(<<"h", "d", "_", "t", "v", ".", "e">>, FALSE),
     Child(<<"t", "v", ".", "h", "d", ".", "e">>, FALSE),
     Child(<<"t", "v", "h", "d", ".", "e">>, FALSE),
     Child(<<"T", "v", "H", "d", ".", "e">>, FALSE),
     Child(<<"_", "-", ".", "e">>, FALSE),
     Child(<<"x", ".", "e">>, FALSE),
     Child(<<"t", "v">>, TRUE)}

Dir(isdir, children) == [is_dir |-> isdir, children |-> children]

\* s1: a directory of up to MaxDirEntries entries; s2: a directory with one
\* matching file named like one of s1 and one with two matches; s3: not a
\* directory
MatchFilesystems ==
    {[d \in {"s1", "s2", "s3"} |->
        CASE d = "s1" -> Dir(TRUE, c)
          [] d = "s2" -> Dir(TRUE, {Child(<<"t", "v", ".", "e">>, FALSE),
                                    Child(<<"h", "d", "_", "t", "v", ".", "e">>, FALSE)})
          [] d = "s3" -> Dir(FALSE, {})] :
     c \in {c \in SUBSET MatchEntries : Cardinality(c) <= MaxDirEntries}}

MatchSources == {<<>>, <<"s1">>, <<"s1", "s2">>, <<"s3", "s1">>}

Threads == 1..NumWorkers

IdleWorker == [pc |-> "idle", alias |-> None, snapshot |-> <<>>]

----------------------------------------------------------------------------
(* search_candidates, one step per directory, entry and worker operation *)

MatchIdle ==
    /\ sc_keys = {}
    /\ sc_sources = <<>>
    /\ sc_dirs = EmptyMap
    /\ aliases = <<>>
    /\ sc_idx = 0
    /\ sc_unread = {}
    /\ sc_file = None
    /\ modified = <<>>
    /\ pending = {}
    /\ workers = [t \in Threads |-> IdleWorker]
    /\ mutex = {}
    /\ alias_matches = <<>>
    /\ candidates = EmptyMap
    /\ multiple_matches = <<>>
    /\ sc_pc = "idle"

MatchInit ==
    /\ sc_keys \in MatchKeySets
    /\ sc_sources \in MatchSources
    /\ sc_dirs \in MatchFilesystems
    /\ aliases = <<>>
    /\ sc_idx = 0
    /\ sc_unread = {}
    /\ sc_file = None
    /\ modified = <<>>
    /\ pending = {}
    /\ workers = [t \in Threads |-> IdleWorker]
    /\ mutex = {}
    /\ alias_matches = <<>>
    /\ candidates = EmptyMap
    /\ multiple_matches = <<>>
    /\ sc_pc = "entry"

\* lines 91-105: the Error::new of line 92 is dropped; the keys are sorted and
\* one pattern per alias is compiled
ScEnter ==
    /\ sc_pc = "entry"
    /\ aliases' \in SortedByLength(sc_keys)
    /\ sc_pc' = "dirs"
    /\ UNCHANGED <<sc_keys, sc_sources, sc_dirs, sc_idx, sc_unread, sc_file, modified,
                   pending, workers, mutex, alias_matches, candidates, multiple_matches>>
    /\ UNCHANGED notMatch

\* lines 107-110: the next source is no directory: continue
ScSkipSource ==
    /\ sc_pc = "dirs"
    /\ sc_idx < Len(sc_sources)
    /\ ~sc_dirs[sc_sources[sc_idx + 1]].is_dir
    /\ sc_idx' = sc_idx + 1
    /\ UNCHANGED <<sc_keys, sc_sources, sc_dirs, aliases, sc_unread, sc_file, modified,
                   pending, workers, mutex, alias_matches, candidates, multiple_matches, sc_pc>>
    /\ UNCHANGED notMatch

\* lines 107-112: the next source is a directory: fs::read_dir
ScReadDir ==
    /\ sc_pc = "dirs"
    /\ sc_idx < Len(sc_sources)
    /\ sc_dirs[sc_sources[sc_idx + 1]].is_dir
    /\ sc_idx' = sc_idx + 1
    /\ sc_unread' = sc_dirs[sc_sources[sc_idx + 1]].children
    /\ sc_pc' = "files"
    /\ UNCHANGED <<sc_keys, sc_sources, sc_dirs, aliases, sc_file, modified,
                   pending, workers, mutex, alias_matches, candidates, multiple_matches>>
    /\ UNCHANGED notMatch

\* line 159: the sources are exhausted: Ok((candidates, multiple_matches))
ScReturn ==
    /\ sc_pc = "dirs"
    /\ sc_idx = Len(sc_sources)
    /\ sc_pc' = "returned"
    /\ UNCHANGED <<sc_keys, sc_sources, sc_dirs, aliases, sc_idx, sc_unread, sc_file, modified,
                   pending, workers, mutex, alias_matches, candidates, multiple_matches>>
    /\ UNCHANGED notMatch

\* line 112: read_dir is exhausted: back to the loop over the sources
ScDirDone ==
    /\ sc_pc = "files"
    /\ sc_unread = {}
    /\ sc_pc' = "dirs"
    /\ UNCHANGED <<sc_keys, sc_sources, sc_dirs, aliases, sc_idx, sc_unread, sc_file, modified,
                   pending, workers, mutex, alias_matches, candidates, multiple_matches>>
    /\ UNCHANGED notMatch

\* lines 113-131: an entry that is a directory, or whose normalized name is
\* empty: continue
ScSkipEntry ==
    /\ sc_pc = "files"
    /\ \E entry \in sc_unread :
          /\ entry.is_dir \/ Normalize(entry.name) = <<>>
          /\ sc_unread' = sc_unread \ {entry}
    /\ UNCHANGED <<sc_keys, sc_sources, sc_dirs, aliases, sc_idx, sc_file, modified,
                   pending, workers, mutex, alias_matches, candidates, multiple_matches, sc_pc>>
    /\ UNCHANGED notMatch

\* lines 113-137: a file with a normalized name: a fresh Mutex<Vec> and the
\* par_iter over the aliases starts
ScStartFile ==
    /\ sc_pc = "files"
    /\ \E entry \in sc_unread :
          /\ ~entry.is_dir
          /\ Normalize(entry.name) # <<>>
          /\ sc_unread' = sc_unread \ {entry}
          /\ sc_file' = <<sc_sources[sc_idx], entry.name>>
          /\ modified' = Normalize(entry.name)
    /\ pending' = DOMAIN aliases
    /\ alias_matches' = <<>>
    /\ sc_pc' = "par"
    /\ UNCHANGED <<sc_keys, sc_sources, sc_dirs, aliases, sc_idx,
                   workers, mutex, candidates, multiple_matches>>
    /\ UNCHANGED notMatch

\* a closure that keeps the text its pattern matched instead of the alias
WorkerTestKeepsText(t) ==
    /\ sc_pc = "par"
    /\ workers[t].pc = "idle"
    /\ \E i \in pending :
          /\ pending' = pending \ {i}
          /\ workers' = [workers EXCEPT ![t] =
                IF IsMatch(aliases[i], modified)
                THEN [pc |-> "lock", alias |-> modified, snapshot |-> <<>>]
                ELSE IdleWorker]
    /\ UNCHANGED <<sc_keys, sc_sources, sc_dirs, aliases, sc_idx, sc_unread, sc_file, modified,
                   mutex, alias_matches, candidates, multiple_matches, sc_pc>>
    /\ UNCHANGED notMatch

\* lines 137-138: a thread takes an alias and tests its pattern; a pattern
\* that does not match ends the closure
WorkerTest(t) ==
    /\ sc_pc = "par"
    /\ workers[t].pc = "idle"
    /\ \E i \in pending :
          /\ pending' = pending \ {i}
          /\ workers' = [workers EXCEPT ![t] =
                IF IsMatch(aliases[i], modified)
                THEN [pc |-> "lock", alias |-> aliases[i], snapshot |-> <<>>]
                ELSE IdleWorker]
    /\ UNCHANGED <<sc_keys, sc_sources, sc_dirs, aliases, sc_idx, sc_unread, sc_file, modified,
                   mutex, alias_matches, candidates, multiple_matches, sc_pc>>
    /\ UNCHANGED notMatch

\* line 140: lock() returns the guard, and push reads the Vec through it
WorkerLock(t) ==
    /\ sc_pc = "par"
    /\ workers[t].pc = "lock"
    /\ MutexFree(mutex)
    /\ mutex' = {t}
    /\ workers' = [workers EXCEPT ![t].pc = "push", ![t].snapshot = alias_matches]
    /\ UNCHANGED <<sc_keys, sc_sources, sc_dirs, aliases, sc_idx, sc_unread, sc_file, modified,
                   pending, alias_matches, candidates, multiple_matches, sc_pc>>
    /\ UNCHANGED notMatch

\* line 140: push writes the Vec with the alias appended, and the guard drops
WorkerPush(t) ==
    /\ sc_pc = "par"
    /\ workers[t].pc = "push"
    /\ alias_matches' = Append(workers[t].snapshot, workers[t].alias)
    /\ mutex' = {}
    /\ workers' = [workers EXCEPT ![t] = IdleWorker]
    /\ UNCHANGED <<sc_keys, sc_sources, sc_dirs, aliases, sc_idx, sc_unread, sc_file, modified,
                   pending, candidates, multiple_matches, sc_pc>>
    /\ UNCHANGED notMatch

\* for_each has returned: every alias was taken and every closure has ended
Joined ==
    /\ sc_pc = "par"
    /\ pending = {}
    /\ \A t \in Threads : workers[t].pc = "idle"

\* lines 144-155: no match: continue; several: push to multiple_matches;
\* one: insert into candidates
ScClassify ==
    /\ Joined
    /\ multiple_matches' =
          IF Classify(alias_matches) = "multiple"
          THEN Append(multiple_matches, sc_file) ELSE multiple_matches
    /\ candidates' =
          IF Classify(alias_matches) = "candidate"
          THEN MapInsert(candidates, sc_file, alias_matches[1]) ELSE candidates
    /\ sc_pc' = "files"
    /\ UNCHANGED <<sc_keys, sc_sources, sc_dirs, aliases, sc_idx, sc_unread, sc_file, modified,
                   pending, workers, mutex, alias_matches>>
    /\ UNCHANGED notMatch

MatchNext ==
    \/ ScEnter \/ ScSkipSource \/ ScReadDir \/ ScReturn
    \/ ScDirDone \/ ScSkipEntry \/ ScStartFile
    \/ \E t \in Threads : WorkerTest(t) \/ WorkerLock(t) \/ WorkerPush(t)
    \/ ScClassify

----------------------------------------------------------------------------
(* Inputs of the runs of main *)

Src1 == <<"s", "1">>

Src2 == <<"s", "2">>

NotADir == <<"s", "3">>

Sub_tv == <<"t", "v">>

Sub_hd == <<"h", "d">>

Sub_TV_hd == <<"T", "V", ",", " ", "h", "d">>

MainSubdirs == {Sub_tv, Sub_hd, Sub_TV_hd}

N_tv_e == <<"t", "v", ".", "e">>

N_hd_e == <<"h", "d", ".", "e">>

N_tv_hd_e == <<"t", "v", "_", "h", "d", ".", "e">>

N_x_e == <<"x", ".", "e">>

N_tv == <<"t", "v">>

N_tv_1_e == <<"t", "v", " ", "(", "1", ")", ".", "e">>

\* the names a file of the first source directory may have
MainNames == {N_tv_e, N_hd_e, N_tv_hd_e, N_x_e, N_tv, N_tv_1_e}

\* the source paths of the command line: none, one, two, the same directory
\* twice, a path that is no directory, and two sources of which one is the
\* sub-directory tv of the target, which main accepts as it accepts any
\* directory
MainPaths == {<<>>, <<Src1>>, <<Src1, Src2>>, <<Src1, Src1>>, <<Src1, NotADir>>,
              <<Sub_tv, Src2>>}

\* a filesystem: every file is identified by the path it starts at
Files(pathset) == [p \in pathset |-> p]

----------------------------------------------------------------------------
(* main, one step per phase and per candidate *)

MainIdle ==
    /\ move_files = FALSE
    /\ target_ok = FALSE
    /\ paths = <<>>
    /\ subdirs = {}
    /\ fs = EmptyMap
    /\ fs0 = EmptyMap
    /\ m_aliases = EmptyMap
    /\ m_candidates = EmptyMap
    /\ m_multiple = <<>>
    /\ remaining = {}
    /\ moves = <<>>
    /\ out = <<>>
    /\ pc = "idle"

MainInit ==
    /\ move_files \in BOOLEAN
    /\ target_ok \in BOOLEAN
    /\ paths \in MainPaths
    /\ subdirs \in (IF target_ok THEN SUBSET MainSubdirs ELSE {{}})
    /\ \E first \in {c \in SUBSET MainNames : Cardinality(c) <= MaxDirEntries},
          present \in (SUBSET {N_tv_e, N_tv_1_e}) \cup {{N_hd_e}} :
          fs = Files({<<Src1, n>> : n \in first}
                     \cup {<<Src2, N_tv_e>>}
                     \cup (IF Sub_tv \in subdirs
                           THEN {<<Sub_tv, n>> : n \in present} ELSE {}))
    /\ fs0 = fs
    /\ m_aliases = EmptyMap
    /\ m_candidates = EmptyMap
    /\ m_multiple = <<>>
    /\ remaining = {}
    /\ moves = <<>>
    /\ out = <<>>
    /\ pc = "start"

\* a check of the sources that lets every path pass
IsSourceDirAlways(dir) == TRUE

\* args.paths[i].is_dir(): the two source directories, and every
\* sub-directory of the target
IsSourceDir(dir) == dir \in {Src1, Src2} \cup subdirs

\* lines 248-254: no source path is given: CLIArgs::parse() refuses the
\* command line for required = true of paths, prints the usage error and
\* exits with status 2; nothing of main's own output is printed
MainUsageError ==
    /\ pc = "start"
    /\ paths = <<>>
    /\ pc' = "exit2"
    /\ UNCHANGED <<move_files, target_ok, paths, subdirs, fs, fs0, m_aliases, m_candidates,
                   m_multiple, remaining, moves, out>>
    /\ UNCHANGED notMain

\* lines 256-272: the target or a source is no directory: eprintln and
\* exit(1); the check of lines 261-264 cannot fail after parse()
MainBadArgs ==
    /\ pc = "start"
    /\ paths # <<>>
    /\ \/ ~target_ok
       \/ \E i \in DOMAIN paths : ~IsSourceDir(paths[i])
    /\ out' = Append(out, Line("exit", <<>>, <<>>))
    /\ pc' = "exit1"
    /\ UNCHANGED <<move_files, target_ok, paths, subdirs, fs, fs0, m_aliases, m_candidates,
                   m_multiple, remaining, moves>>
    /\ UNCHANGED notMain

\* lines 256-274: the checks pass: "Using ... as sorting target directory"
MainArgsOk ==
    /\ pc = "start"
    /\ target_ok
    /\ paths # <<>>
    /\ \A i \in DOMAIN paths : IsSourceDir(paths[i])
    /\ out' = Append(out, Line("using", <<>>, <<>>))
    /\ pc' = "aliases"
    /\ UNCHANGED <<move_files, target_ok, paths, subdirs, fs, fs0, m_aliases, m_candidates,
                   m_multiple, remaining, moves>>
    /\ UNCHANGED notMain

\* lines 276-283: generate_aliases, read_dir yielding the sub-directories in
\* any order; an empty table exits, else "Finding matches..."
MainAliases ==
    /\ pc = "aliases"
    /\ \E order \in Orders({Child(d, TRUE) : d \in subdirs}) :
          m_aliases' = ReadEntries(EmptyMap, order)
    /\ IF DOMAIN m_aliases' = {}
       THEN /\ out' = Append(out, Line("exit", <<>>, <<>>))
            /\ pc' = "exit1"
       ELSE /\ out' = Append(out, Line("finding", <<>>, <<>>))
            /\ pc' = "search"
    /\ UNCHANGED <<move_files, target_ok, paths, subdirs, fs, fs0, m_candidates,
                   m_multiple, remaining, moves>>
    /\ UNCHANGED notMain

\* lines 285-290: search_candidates; "Matches:" when there are candidates
MainSearch ==
    /\ pc = "search"
    /\ m_candidates' = CandidatesMap(DOMAIN m_aliases, paths, fs)
    /\ m_multiple' \in MultipleLists(DOMAIN m_aliases, paths, fs)
    /\ remaining' = DOMAIN m_candidates'
    /\ out' = IF DOMAIN m_candidates' # {}
              THEN Append(out, Line("matches", <<>>, <<>>)) ELSE out
    /\ pc' = "apply"
    /\ UNCHANGED <<move_files, target_ok, paths, subdirs, fs, fs0, m_aliases, moves>>
    /\ UNCHANGED notMain

\* lines 290-292: the candidate has no extension: rename_destination panics
MainPanic ==
    /\ pc = "apply"
    /\ \E c \in remaining :
          /\ Destination(fs, m_aliases, m_candidates, c) = None
          /\ remaining' = remaining \ {c}
    /\ pc' = "panicked"
    /\ UNCHANGED <<move_files, target_ok, paths, subdirs, fs, fs0, m_aliases, m_candidates,
                   m_multiple, moves, out>>
    /\ UNCHANGED notMain

\* lines 290-304 without --move-files: "Not moving ... to ..."
MainNotMoving ==
    /\ pc = "apply"
    /\ ~move_files
    /\ \E c \in remaining :
          LET dst == Destination(fs, m_aliases, m_candidates, c)
          IN  /\ dst # None
              /\ fs' = DryRun(fs, c, dst)
              /\ out' = Append(out, Line("not_moving", c, dst))
              /\ remaining' = remaining \ {c}
    /\ UNCHANGED <<move_files, target_ok, paths, subdirs, fs0, m_aliases, m_candidates,
                   m_multiple, moves, pc>>
    /\ UNCHANGED notMain

\* lines 290-299 with --move-files: fs::rename succeeds: "Moved ... to ..."
MainMoved ==
    /\ pc = "apply"
    /\ move_files
    /\ \E c \in remaining :
          LET dst == Destination(fs, m_aliases, m_candidates, c)
          IN  /\ dst # None
              /\ fs' = Rename(fs, c, dst)
              /\ moves' = Append(moves,
                                 [src |-> c, dst |-> dst, dst_free |-> dst \notin DOMAIN fs])
              /\ out' = Append(out, Line("moved", c, dst))
              /\ remaining' = remaining \ {c}
    /\ UNCHANGED <<move_files, target_ok, paths, subdirs, fs0, m_aliases, m_candidates,
                   m_multiple, pc>>
    /\ UNCHANGED notMain

\* lines 290-301 with --move-files: fs::rename fails (another device, a
\* permission): "error: ..." with the io::Error alone, which names neither
\* the candidate nor the destination, and the loop goes on
MainMoveFailed ==
    /\ pc = "apply"
    /\ move_files
    /\ \E c \in remaining :
          LET dst == Destination(fs, m_aliases, m_candidates, c)
          IN  /\ dst # None
              /\ out' = Append(out, Line("error", <<>>, <<>>))
              /\ remaining' = remaining \ {c}
    /\ UNCHANGED <<move_files, target_ok, paths, subdirs, fs, fs0, m_aliases, m_candidates,
                   m_multiple, moves, pc>>
    /\ UNCHANGED notMain

\* lines 306-316: the loop is over: "Multiple matches (not moved):" and the
\* paths, when there are any; Ok(())
MainPrintMultiple ==
    /\ pc = "apply"
    /\ remaining = {}
    /\ out' = IF m_multiple = <<>> THEN out
              ELSE out \o <<Line("multiple_header", <<>>, <<>>)>>
                       \o [i \in DOMAIN m_multiple |-> Line("multiple", m_multiple[i], <<>>)]
    /\ pc' = "done"
    /\ UNCHANGED <<move_files, target_ok, paths, subdirs, fs, fs0, m_aliases, m_candidates,
                   m_multiple, remaining, moves>>
    /\ UNCHANGED notMain

Next ==
    \/ MainUsageError \/ MainBadArgs \/ MainArgsOk \/ MainAliases \/ MainSearch
    \/ MainPanic \/ MainNotMoving \/ MainMoved \/ MainMoveFailed
    \/ MainPrintMultiple

----------------------------------------------------------------------------
(* Specifications: one per component, the other components idle *)

InitNamer == NamerInit /\ AliasIdle /\ MatchIdle /\ MainIdle

SpecNamer == InitNamer /\ [][NamerNext]_vars

InitAliases == AliasInit /\ NamerIdle /\ MatchIdle /\ MainIdle

SpecAliases == InitAliases /\ [][AliasNext]_vars

InitMatch == MatchInit /\ NamerIdle /\ AliasIdle /\ MainIdle

SpecMatch == InitMatch /\ [][MatchNext]_vars

Init == MainInit /\ NamerIdle /\ AliasIdle /\ MatchIdle

Spec == Init /\ [][Next]_vars

----------------------------------------------------------------------------
(* Claims about rename_destination, checked under SpecNamer *)

\* C1: the path rename_destination returns does not exist in the target
\* directory at the moment it is returned.
C1_ReturnedPathIsFree ==
    rd_pc = "returned" => new_path \notin existing

\* a call that had to step over three occupied paths before it returned
C1_Witness ==
    /\ rd_pc = "returned"
    /\ target_is_dir
    /\ Len(probed) >= 4
    /\ source_name \in existing

\* the stem written as  base ++ " (" ++ digits ++ ")" : the number of digits,
\* 0 when the stem has no such ending
TrailingSuffixDigits(stem) ==
    LET ks == {k \in 1..(Len(stem) - 3) :
                  /\ stem[Len(stem)] = ")"
                  /\ \A i \in (Len(stem) - k)..(Len(stem) - 1) : IsRegexDigit(stem[i])
                  /\ stem[Len(stem) - k - 1] = "("
                  /\ stem[Len(stem) - k - 2] = " "}
    IN  IF ks = {} THEN 0 ELSE CHOOSE k \in ks : TRUE

\* the stem without its trailing " (K)"
BaseOfStem(stem) ==
    IF TrailingSuffixDigits(stem) = 0 THEN stem
    ELSE SubSeq(stem, 1, Len(stem) - TrailingSuffixDigits(stem) - 3)

\* the digits of a trailing " (K)"
DigitsOfStem(stem) ==
    SubSeq(stem, Len(stem) - TrailingSuffixDigits(stem), Len(stem) - 1)

\* the smallest n above `from` for which  stem (n).ext  is free
SmallestFree(stem, ext, from) ==
    CHOOSE n \in (from + 1)..(from + Cardinality(existing) + 1) :
        /\ SuffixedName(stem, n, ext) \notin existing
        /\ \A m \in (from + 1)..(n - 1) : SuffixedName(stem, m, ext) \in existing

\* C2 as stated: the source name when it is free, else  stem (N).ext  for the
\* smallest N >= 1 that is free, the stem being the whole stem of the source
\* name even when it already ends in " (K)".
C2_Original ==
    rd_pc = "returned" =>
        new_path = IF source_name \notin existing THEN source_name
                   ELSE SuffixedName(FileStem(source_name),
                                     SmallestFree(FileStem(source_name), extension, 0),
                                     extension)

\* the decimal successor of a number, digit by digit
RECURSIVE Successor(_)
Successor(ds) ==
    IF ds = <<>> THEN <<"1">>
    ELSE IF ds[Len(ds)] = "9" THEN Successor(SubSeq(ds, 1, Len(ds) - 1)) \o <<"0">>
    ELSE SubSeq(ds, 1, Len(ds) - 1) \o <<Digits[DigitVal(ds[Len(ds)]) + 2]>>

\* a < b for two numbers written without leading zeros
NumLess(a, b) ==
    \/ Len(a) < Len(b)
    \/ Len(a) = Len(b) /\ DigitsGreater(b, a)

\* the numbers that follow a number written at the end of the stem of an
\* existing name: every number that follows an occupied  base (n).ext  is
\* among them
AfterExisting ==
    {Successor(DigitsOfStem(FileStem(e))) :
        e \in {x \in existing :
                  /\ TrailingSuffixDigits(FileStem(x)) > 0
                  /\ \A i \in DOMAIN DigitsOfStem(FileStem(x)) :
                        IsDigit(DigitsOfStem(FileStem(x))[i])
                  /\ StripZeros(DigitsOfStem(FileStem(x))) = DigitsOfStem(FileStem(x))}}

\* the smallest number among `from` for which  base (n).ext  does not exist
SmallestFreeAmong(base, ext, from) ==
    CHOOSE n \in from :
        /\ SuffixedDigits(base, n, ext) \notin existing
        /\ \A m \in from : SuffixedDigits(base, m, ext) \notin existing => ~NumLess(m, n)

\* the smallest N > k for which  base (N).ext  does not exist: it is k + 1
\* or follows an occupied number
SmallestFreeAbove(base, ext, k) ==
    SmallestFreeAmong(base, ext, {n \in AfterExisting \cup {Successor(k)} : NumLess(k, n)})

\* what C2 amended says of the call on source_name in a target directory
\* that holds `existing`: the path returned, None for a panic
ResultOfC2 ==
    LET stem == FileStem(source_name)
        ext == Extension(source_name)
        base == BaseOfStem(stem)
        suffixed == TrailingSuffixDigits(stem) > 0
    IN  IF ext = None THEN None
        ELSE IF source_name \notin existing THEN source_name
        ELSE IF suffixed /\ ParseFails(DigitsOfStem(stem)) THEN None
        ELSE LET k == IF suffixed THEN StripZeros(DigitsOfStem(stem)) ELSE <<"0">>
                 n == SmallestFreeAbove(base, ext, k)
             IN  IF ~NumLess(U64Max, n) THEN SuffixedDigits(base, n, ext)
                 ELSE IF overflow_checks THEN None
                 ELSE SuffixedDigits(base,
                                     SmallestFreeAmong(base, ext, AfterExisting \cup {<<"0">>}),
                                     ext)

\* C2 amended: for a source name with an extension the call returns the
\* source name when it is free; else, with the stem of the source name read
\* as base ++ " (K)" (K = 0 and base the whole stem when it has no such
\* ending), it returns  base (N).ext  for the smallest N > K that is free,
\* provided K is a u64 and N <= u64::MAX.  Else it returns no such path: it
\* panics when the source name has no extension, when it exists and its K
\* is no u64 (a digit outside ASCII, a number above u64::MAX), and when N is
\* above u64::MAX in a build with overflow checks; without overflow checks
\* it then returns  base (M).ext  for the smallest M >= 0 that is free.
C2_SmallestFreeAboveOwnSuffix ==
    /\ rd_pc = "returned" => new_path = ResultOfC2
    /\ rd_pc = "panicked" => ResultOfC2 = None

\* source "r (1).e" with "r (1).e" and "r (2).e" present and "r.e" absent:
\* the call returned "r (3).e"
C2_Witness ==
    /\ rd_pc = "returned"
    /\ source_name = Numbered(Stem_r, 1, Ext_e)
    /\ Numbered(Stem_r, 2, Ext_e) \in existing
    /\ source_name \in existing
    /\ FileName(Stem_r, Ext_e) \notin existing
    /\ new_path = Numbered(Stem_r, 3, Ext_e)

----------------------------------------------------------------------------
(* Claims about generate_aliases, checked under SpecAliases *)

\* two different sub-directories of the target directory yield one alias key
DuplicateAlias ==
    \E c, d \in ga_children :
        /\ c # d /\ c.is_dir /\ d.is_dir
        /\ Range(AliasKeys(c.name)) \cap Range(AliasKeys(d.name)) # {}

\* C3: when two sub-directories yield the same alias key, generate_aliases
\* returns an error and no alias table.
C3_DuplicateAliasIsAnError ==
    DuplicateAlias => ga_pc # "returned"

----------------------------------------------------------------------------
(* Claims about search_candidates, checked under SpecMatch *)

\* the files directly inside the source directories whose normalized name is
\* not empty, as paths
MatchableFiles ==
    UNION {{<<sc_sources[i], e.name>> :
               e \in {x \in sc_dirs[sc_sources[i]].children :
                          ~x.is_dir /\ Normalize(x.name) # <<>>}} :
           i \in {j \in DOMAIN sc_sources : sc_dirs[sc_sources[j]].is_dir}}

\* the aliases whose whole-word pattern matches the file of a path
AliasesOfPath(path) == MatchingAliases(sc_keys, Normalize(path[2]))

\* C4: at the return of search_candidates every file with a non-empty
\* normalized name is classified by the number of aliases that match it as a
\* whole word: none: in neither output; one: a candidate bound to that alias;
\* two or more: in multiple_matches and no candidate.  The two outputs are
\* disjoint.
C4_ClassifiedByMatchCount ==
    sc_pc = "returned" =>
        /\ \A path \in MatchableFiles :
              LET n == Cardinality(AliasesOfPath(path))
              IN  /\ n = 0 => /\ path \notin DOMAIN candidates
                              /\ path \notin Range(multiple_matches)
                  /\ n = 1 => /\ path \in DOMAIN candidates
                              /\ candidates[path] \in AliasesOfPath(path)
                              /\ path \notin Range(multiple_matches)
                  /\ n >= 2 => /\ path \in Range(multiple_matches)
                               /\ path \notin DOMAIN candidates
        /\ DOMAIN candidates \cap Range(multiple_matches) = {}

\* a run that returned a candidate, an ambiguous file matched by all three
\* aliases, and left a file without match out of both
C4_Witness ==
    /\ sc_pc = "returned"
    /\ \E path \in MatchableFiles : Cardinality(AliasesOfPath(path)) = 0
    /\ \E path \in DOMAIN candidates : Cardinality(AliasesOfPath(path)) = 1
    /\ \E path \in Range(multiple_matches) : Cardinality(AliasesOfPath(path)) = 3

\* C5: once the par_iter over the aliases has ended, alias_matches holds
\* exactly the aliases a sequential evaluation finds, each once, whatever the
\* interleaving of the worker threads was.
C5_ParallelEqualsSequential ==
    Joined =>
        /\ Range(alias_matches) = MatchingAliases(sc_keys, modified)
        /\ Len(alias_matches) = Cardinality(MatchingAliases(sc_keys, modified))

\* three aliases matched and were pushed, the shortest one first although it
\* is the last of the sorted aliases
C5_Witness ==
    /\ Joined
    /\ Len(alias_matches) = 3
    /\ alias_matches[1] = Alias_tv
    /\ aliases[1] = Alias_tv_hd

----------------------------------------------------------------------------
(* Claims about a run of main, checked under Spec *)

\* the alias keys the sub-directories of the target directory yield
KeysOfTarget == UNION {Range(AliasKeys(d)) : d \in subdirs}

\* the files the run started with in the directories it scans
ScannedFiles == {p \in DOMAIN fs0 : p[1] \in Range(paths)}

\* for every scanned file, the aliases that match it as whole words (none
\* when its normalized name is empty, which search_candidates skips)
MatchesOfScanned ==
    LET keys == KeysOfTarget
    IN  [p \in ScannedFiles |->
            LET text == Normalize(p[2])
            IN  IF text = <<>> THEN {} ELSE {a \in keys : IsMatch(a, text)}]

\* the matching phase is over
Searched == pc \in {"apply", "done", "panicked"}

\* the run has ended after its matching phase
Ended == pc \in {"done", "panicked"}

\* C6: in commit mode no two candidates of a run are moved to the same
\* destination, every move went to a path that did not exist when the move
\* was made, and so no file the run started with is lost to an overwrite.
C6_MovesNeverCollide ==
    /\ \A i \in DOMAIN moves : moves[i].dst_free
    /\ \A i, j \in DOMAIN moves : i # j => moves[i].dst # moves[j].dst
    /\ \A p \in DOMAIN fs0 : \E q \in DOMAIN fs : fs[q] = fs0[p]

\* two files of one name moved from two sources into the directory tv, which
\* held a file of that name already
C6_Witness ==
    /\ pc = "done"
    /\ move_files
    /\ Len(moves) = 2
    /\ moves[1].src[2] = moves[2].src[2]
    /\ moves[1].dst[1] = Sub_tv /\ moves[2].dst[1] = Sub_tv
    /\ <<Sub_tv, moves[1].src[2]>> \in DOMAIN fs0

\* C7: without --move-files the filesystem stays as it was, and the
\* candidates with their aliases and the ambiguous files are those the
\* filesystem the run started with determines, whatever the flag is (so a
\* dry run and a commit run on one initial filesystem report the same); an
\* ambiguous file is listed once for every time its directory is a source.
C7_DryRunChangesNothing ==
    /\ ~move_files => fs = fs0 /\ moves = <<>>
    /\ Searched =>
          LET matches == MatchesOfScanned
          IN  /\ DOMAIN m_candidates = {p \in ScannedFiles : Cardinality(matches[p]) = 1}
              /\ \A p \in DOMAIN m_candidates : m_candidates[p] \in matches[p]
              /\ Range(m_multiple) = {p \in ScannedFiles : Cardinality(matches[p]) >= 2}
              /\ \A p \in Range(m_multiple) :
                    Cardinality({i \in DOMAIN m_multiple : m_multiple[i] = p})
                        = Cardinality({i \in DOMAIN paths : paths[i] = p[1]})

\* a dry run that reported two candidates and an ambiguous file and ended
C7_Witness ==
    /\ pc = "done"
    /\ ~move_files
    /\ Cardinality(DOMAIN m_candidates) >= 2
    /\ m_multiple # <<>>
    /\ \E i \in DOMAIN out : out[i].kind = "not_moving"

\* C8: only candidates are moved: every scanned file that matches no alias or
\* several is at the path it started at, in every state of every run.
C8_OnlyCandidatesMove ==
    /\ \A p \in ScannedFiles :
          (p \notin DOMAIN fs \/ fs[p] # fs0[p]) => Cardinality(MatchesOfScanned[p]) = 1
    /\ \A i \in DOMAIN moves : moves[i].src \in ScannedFiles

\* a commit run that moved a candidate and ended, with an ambiguous file and
\* a file without match among the scanned ones
C8_Witness ==
    /\ pc = "done"
    /\ move_files
    /\ moves # <<>>
    /\ \E p \in ScannedFiles : MatchesOfScanned[p] = {} /\ Normalize(p[2]) # <<>>
    /\ \E p \in ScannedFiles : Cardinality(MatchesOfScanned[p]) >= 2

\* C9: a run whose matching phase found ambiguous files has printed every
\* one of them when it ends, whatever happened while the candidates were
\* processed.
C9_AmbiguousAlwaysPrinted ==
    (Ended /\ m_multiple # <<>>) =>
        \A i \in DOMAIN m_multiple : Line("multiple", m_multiple[i], <<>>) \in Range(out)

\* C10: a commit run in which a move failed has, when it ends, attempted
\* every candidate: there are as many "Moved" and "error" lines as there are
\* candidates, and every candidate without a "Moved" line is still where it
\* was.
C10_FailedMoveDoesNotStopRun ==
    (Ended /\ move_files /\ \E i \in DOMAIN out : out[i].kind = "error") =>
        /\ Cardinality({i \in DOMAIN out : out[i].kind \in {"moved", "error"}})
              = Cardinality(DOMAIN m_candidates)
        /\ \A c \in DOMAIN m_candidates :
              (\E i \in DOMAIN out : out[i].kind = "moved" /\ out[i].path = c)
              \/ (c \in DOMAIN fs /\ fs[c] = fs0[c])

----------------------------------------------------------------------------
(* Error contracts of search_candidates and rename_destination *)

\* C11: search_candidates called with an empty list of source directories
\* fails with a No-Sources error: it never returns Ok, so a call with no
\* sources never reaches its return with (empty) outputs.
C11_NoSourcesIsAnError ==
    sc_sources = <<>> => sc_pc # "returned"

\* C12: rename_destination called with a target that is no existing directory
\* fails with an Invalid-Input error: it never returns a destination path.
C12_NonDirectoryTargetIsAnError ==
    (rd_pc # "idle" /\ ~target_is_dir) => rd_pc # "returned"

----------------------------------------------------------------------------
(* Exit behaviour of main, checked under Spec *)

\* one of the checks main makes before it matches fails for this run: the
\* target is no directory, no source is given, a source is no directory, or
\* the target directory yields no alias
FailingCheck ==
    \/ ~target_ok
    \/ paths = <<>>
    \/ NotADir \in Range(paths)
    \/ KeysOfTarget = {}

\* C13: when the target is no directory, no source path is given, a source
\* path is no directory, or the alias table comes out empty, the run ends at
\* a non-zero exit (status 2 of the argument parser when no source path is
\* given, else exit(1)): it never reaches the matching, it holds no
\* candidate and no ambiguous file, it prints no line about a file, and no
\* file is moved.  In the first three cases the alias table is not even
\* built.
C13_FailedCheckExitsWithoutMoving ==
    FailingCheck =>
        /\ pc \in {"start", "aliases", "exit1", "exit2"}
        /\ (pc = "aliases" => KeysOfTarget = {})
        /\ (pc \notin {"exit1", "exit2"} => ENABLED Next)
        /\ (pc = "exit1" => out[Len(out)].kind = "exit")
        /\ (pc = "exit2" <=> (paths = <<>> /\ pc # "start"))
        /\ \A i \in DOMAIN out : out[i].kind \in {"using", "exit"}
        /\ m_candidates = EmptyMap /\ m_multiple = <<>>
        /\ moves = <<>> /\ fs = fs0

\* a commit run that exited because its second source is no directory,
\* although its first source holds a file that matches the alias tv
C13_Witness ==
    /\ pc = "exit1"
    /\ move_files
    /\ target_ok
    /\ paths = <<Src1, NotADir>>
    /\ Sub_tv \in subdirs
    /\ <<Src1, N_tv_e>> \in DOMAIN fs

----------------------------------------------------------------------------
(* The alias table of generate_aliases, checked under SpecAliases *)

\* the sub-directories among the children of the target directory, by name
SubdirNames == {c.name : c \in {x \in ga_children : x.is_dir}}

\* the aliases of a directory name as C14 states them: the name lowercased,
\* cut at its commas (one segment when it has none), every segment trimmed
TrimmedAliases(dirname) ==
    {Trim(segment) : segment \in Range(Split(ToLowercase(dirname), ","))}

\* C14 as stated: the table generate_aliases returns has as keys exactly the
\* lowercased, whitespace-trimmed aliases of the sub-directory names (every
\* comma-separated segment, or the whole name when it has no comma), every
\* alias maps to the sub-directory it comes from, and children that are no
\* directories add no key.
C14_KeysAreTrimmedLowercasedAliases ==
    ga_pc = "returned" =>
        /\ DOMAIN entries = UNION {TrimmedAliases(d) : d \in SubdirNames}
        /\ \A d \in SubdirNames : \A k \in TrimmedAliases(d) :
              k \in DOMAIN entries /\ entries[k] = d

\* the aliases of a directory name as the code derives them: the lowercased
\* name; with a comma, its comma-separated segments, each trimmed; without a
\* comma, the whole lowercased name as it is
AliasesOfName(dirname) ==
    LET name == ToLowercase(dirname)
    IN  IF "," \in Range(name)
        THEN {Trim(segment) : segment \in Range(Split(name, ","))}
        ELSE {name}

\* C14 amended: the keys of the returned table are exactly the aliases of the
\* sub-directory names, where only the segments of a name with commas are
\* trimmed and a name without comma is its own alias, lowercased and
\* untrimmed; every key maps to a sub-directory that yields it (the only one,
\* when one sub-directory yields it); children that are no directories add
\* no key.
C14_KeysAreAliasesOfSubdirs ==
    ga_pc = "returned" =>
        /\ DOMAIN entries = UNION {AliasesOfName(d) : d \in SubdirNames}
        /\ \A k \in DOMAIN entries :
              entries[k] \in {d \in SubdirNames : k \in AliasesOfName(d)}

\* a table returned for the sub-directories "Movies, Films" and " Docs" and
\* the regular file "films": movies and films map to the first, " docs"
\* (untrimmed) to the second
C14_Witness ==
    /\ ga_pc = "returned"
    /\ ga_children = {Child(Dir_Movies_Films, TRUE), Child(Dir_docs, TRUE),
                      Child(File_films, FALSE)}
    /\ DOMAIN entries = {<<"m", "o", "v", "i", "e", "s">>, <<"f", "i", "l", "m", "s">>,
                         <<" ", "d", "o", "c", "s">>}
    /\ entries[<<"f", "i", "l", "m", "s">>] = Dir_Movies_Films

----------------------------------------------------------------------------
(* The aliases of the candidates, checked under SpecMatch *)

\* C15: every alias search_candidates binds to a candidate is a key of the
\* alias table it was called with, in every state up to and at its return,
\* so the lookup of the destination directory in main finds it; so is every
\* alias a worker thread holds or has pushed.
C15_CandidateAliasIsAKey ==
    /\ \A path \in DOMAIN candidates : candidates[path] \in sc_keys
    /\ Range(alias_matches) \subseteq sc_keys
    /\ Range(aliases) \subseteq sc_keys

\* a call that returned two candidates bound to the alias hd, which is not
\* the only key, and found an ambiguous file as well
C15_Witness ==
    /\ sc_pc = "returned"
    /\ sc_keys = {Alias_hd, Alias_tv_hd}
    /\ Cardinality(DOMAIN candidates) >= 2
    /\ \A path \in DOMAIN candidates : candidates[path] = Alias_hd
    /\ multiple_matches # <<>>

----------------------------------------------------------------------------
(* The loop of rename_destination, checked under SpecNamer *)

\* C16: for a source name with an extension the loop ends, and it ends at
\* the first path of its probe sequence that does not exist: the call never
\* panics and is never stuck, no path is probed twice, the path the next
\* iteration probes was not probed before, every path probed before the last
\* one exists, the last one is free and is the path returned, and there are
\* at most as many probes as existing files, plus one.
C16_LoopStopsAtFirstFreeProbe ==
    Extension(source_name) # None =>
        /\ rd_pc \in {"entry", "loop", "returned"}
        /\ (rd_pc \in {"entry", "loop"} => ENABLED NamerNext)
        /\ \A i, j \in DOMAIN probed : i # j => probed[i] # probed[j]
        /\ (rd_pc = "loop" => new_path \notin Range(probed))
        /\ \A i \in DOMAIN probed :
              probed[i] \notin existing => (rd_pc = "returned" /\ i = Len(probed))
        /\ (rd_pc = "returned" =>
              probed[Len(probed)] = new_path /\ new_path \notin existing)
        /\ Len(probed) <= Cardinality(existing) + 1

\* the digits of a number in ASCII
AsciiDigits(ds) == [i \in DOMAIN ds |-> IF ds[i] = ArabicIndicOne THEN "1" ELSE ds[i]]

\* C17: an iteration that finds its path existing, with a stem that ends in
\* " (N)" for a decimal N of any number of digits, goes on with the stem cut
\* exactly before that " (N)", followed by " (N+1)", a dot and the extension
\* of the source name; the result is one file name (no separator in it), so
\* it stays directly inside the target directory.
C17_IncrementReplacesSuffix ==
    [][(/\ rd_pc = "loop"
        /\ new_path \in existing
        /\ TrailingSuffixDigits(FileStem(new_path)) > 0)
       => /\ new_path' = BaseOfStem(FileStem(new_path)) \o <<" ", "(">>
                         \o Successor(StripZeros(AsciiDigits(DigitsOfStem(FileStem(new_path)))))
                         \o <<")", ".">> \o Extension(source_name)
          /\ "/" \notin Range(new_path')]_vars

----------------------------------------------------------------------------
(* The error contract of generate_aliases, checked under SpecAliases *)

\* C18: generate_aliases called with a path that is no directory (missing,
\* or a regular file) returns an error: the call never reads an entry and
\* never returns Ok with a table, empty or not, and it does end with the
\* error.
C18_NonDirectoryIsAnError ==
    (ga_pc # "idle" /\ ~ga_is_dir) =>
        /\ ga_pc \in {"entry", "err"}
        /\ entries = EmptyMap
        /\ (ga_pc = "entry" => ENABLED GaReadDirErr)

\* the call on a path that is no directory has returned the error of read_dir
C18_Witness ==
    /\ ga_pc = "err"
    /\ ~ga_is_dir
    /\ entries = EmptyMap

----------------------------------------------------------------------------
(* Files without extension in a run of main, checked under Spec *)

\* the files the run started with in its source directories whose name has
\* no dot, and so no extension
FilesWithoutExtension == {p \in ScannedFiles : "." \notin Range(p[2])}

\* C19: rename_destination fails for a source file whose name has no
\* extension: for no content of no target directory does it return a path,
\* the run that reaches such a candidate ends there in the panic, no line
\* with a destination is printed for the file, and the file is never moved:
\* it stays at the path it started at.
C19_NoExtensionNeverMoved ==
    \A p \in FilesWithoutExtension :
        /\ \A d \in subdirs : RenameDestination(p[2], NamesIn(fs, d)) = None
        /\ p \in DOMAIN fs /\ fs[p] = fs0[p]
        /\ \A i \in DOMAIN moves : moves[i].src # p
        /\ \A i \in DOMAIN out : out[i].path # p
        /\ (p \in DOMAIN m_candidates /\ p \notin remaining /\ Searched) => pc = "panicked"

\* a commit run that moved one candidate and then panicked on the candidate
\* "tv", which has no extension and is still where it was
C19_Witness ==
    /\ pc = "panicked"
    /\ move_files
    /\ Len(moves) = 1
    /\ <<Src1, N_tv>> \in DOMAIN m_candidates
    /\ <<Src1, N_tv>> \notin remaining
    /\ fs[<<Src1, N_tv>>] = fs0[<<Src1, N_tv>>]

----------------------------------------------------------------------------
(* The order of the candidates in a commit run, checked under Spec *)

\* the filesystem after the given candidates were moved one by one in one
\* fixed order, every destination computed when its turn comes
RECURSIVE MoveAll(_, _)
MoveAll(f, todo) ==
    IF todo = {} THEN f
    ELSE LET c == CHOOSE x \in todo : TRUE
         IN  MoveAll(Rename(f, c, Destination(f, m_aliases, m_candidates, c)), todo \ {c})

\* a commit run has ended and every candidate was moved
AllMoved ==
    /\ pc = "done"
    /\ move_files
    /\ \A c \in DOMAIN m_candidates : \E i \in DOMAIN moves : moves[i].src = c

\* directory that is a sub-directory of the target)
NoCandidateInItsDestination ==
    \A c \in DOMAIN m_candidates : c[1] # m_aliases[m_candidates[c]]


====
